---- MODULE Spec2Model ----
(***************************************************************************)
(* Reservation state machine of the library backend: the request handlers  *)
(* of app/routers/{general,librarian,user}_reservations.py and the         *)
(* periodic job _check_and_cleanup_reservations of                         *)
(* app/services/email_tasks.py, over the books, reservations and users     *)
(* tables.                                                                 *)
(*                                                                         *)
(* Every handler is modelled in two parts, as the code runs it on an       *)
(* AsyncSession: a plan (the SELECTs and the checks, computed on the rows  *)
(* the handler read) and the UPDATE/INSERT statements its commit flushes.  *)
(* Spec runs each handler atomically (one request at a time); SpecConc     *)
(* lets the handlers of NumProcs workers interleave between their reads    *)
(* and their commit, which is what the code allows: no handler locks a row *)
(* (no SELECT ... FOR UPDATE) and the engine runs at the default           *)
(* isolation level.                                                        *)
(***************************************************************************)
EXTENDS Integers, Sequences, FiniteSets, TLC

\* ------------------------------------------------------------- bounds
NumBooks == 4       \* rows of the books table
NumUsers == 2       \* readers
MaxRes == 3         \* reservations ever created in a run of Spec
MaxTime == 15       \* the last day of a run
NumProcs == 2       \* workers serving requests at the same time (SpecConc)
MaxRequests == 3    \* requests served in a run of SpecConc
MaxCreates == 4     \* requests served in a run of SpecCreate
MaxAdminRes == 2    \* reservations ever created in a run of SpecAdmin
MaxJobRes == 2      \* reservations ever created in a run of SpecJobs
MaxJobs == 3        \* runs of the periodic tasks in a run of SpecJobs
MaxCatalogRes == 2  \* reservations ever created in a run of SpecCatalog
NumLibrarians == 2  \* librarians answering chats (SpecChat)
MaxSessions == 2    \* chat sessions ever started in a run of SpecChat
MaxChatRequests == 3 \* take_chat requests served in a run of SpecChat

\* -------------------------------------------------- program constants
PickupDays == 5
LoanDays == 14
ReservationLimit == 3
OverdueBlockThreshold == 2
ReminderLeadDays == 3
\* the 30 seconds either side of the reminder instant, in days
ReminderWindow == 0

Books == 1..NumBooks
Users == 1..NumUsers
ResIds == 1..MaxRes
Procs == 1..NumProcs

\* a book id that is in no row of the books table
MissingBook == NumBooks + 1

BookStatus == {"AVAILABLE", "RESERVED", "CHECKED_OUT", "OVERDUE"}
ReservationStatus ==
    {"PENDING", "CONFIRMED", "CANCELLED", "ACTIVE", "COMPLETED", "EXPIRED"}

\* the days the clock is read on after day 0: a pickup deadline exactly, and a
\* day past every deadline set on day 0
Checkpoints == {PickupDays, MaxTime}

\* the days the clock is read on in SpecJobs: the day the reminder of a loan
\* of day 0 is due, and a day past every deadline set on day 0
JobCheckpoints == {LoanDays - ReminderLeadDays, MaxTime}

VARIABLES
    book_status,    \* books.status, by book id
    reservations,   \* the reservations table, by id (a serial primary key)
    is_blocked,     \* users.is_blocked, by user id
    now,            \* datetime.now(), in days
    proc,           \* the request (SpecConc, SpecChat) or task run (SpecJobs) of each worker
    requests,       \* requests or task runs begun so far (SpecConc, SpecJobs, SpecChat)
    chat_sessions   \* the chat_sessions table, by id (an autoincrement primary key)

vars == <<book_status, reservations, is_blocked, now, proc, requests, chat_sessions>>

\* the three tables as one value, as a handler's session sees them
Store == [book |-> book_status, res |-> reservations, blocked |-> is_blocked]

\* ------------------------------------------------------------- writes
\* The place of a deleted row in the reservations table: ids are serial and
\* are not given again.
NoRow == [book_id |-> 0, user_id |-> 0, status |-> "DELETED", expires_at |-> 0]

\* DELETE of a book: Book.reservations cascades (all, delete-orphan) and the
\* foreign key is ON DELETE CASCADE, so the book's reservations go with it.
DeleteBook(st, b) ==
    [st EXCEPT !.book = [x \in (DOMAIN st.book) \ {b} |-> st.book[x]],
               !.res = [r \in 1..Len(st.res) |->
                          IF st.res[r].book_id = b THEN NoRow ELSE st.res[r]]]

\* One UPDATE or INSERT of a flush.
ApplyWrite(st, w) ==
    CASE w.kind = "book" -> [st EXCEPT !.book[w.id] = w.val]
      [] w.kind = "status" -> [st EXCEPT !.res[w.id].status = w.val]
      [] w.kind = "expires_at" -> [st EXCEPT !.res[w.id].expires_at = w.val]
      [] w.kind = "insert" -> [st EXCEPT !.res = Append(@, w.val)]
      [] w.kind = "is_blocked" -> [st EXCEPT !.blocked[w.id] = w.val]
      [] w.kind = "delete_book" -> DeleteBook(st, w.id)

RECURSIVE ApplyAll(_, _)
ApplyAll(st, ws) ==
    IF ws = <<>> THEN st ELSE ApplyAll(ApplyWrite(st, Head(ws)), Tail(ws))

\* The unit of work emits an UPDATE only for an attribute whose new value
\* differs from the loaded one.
SetBook(st, b, v) ==
    IF st.book[b] = v THEN <<>> ELSE <<[kind |-> "book", id |-> b, val |-> v]>>
SetStatus(st, r, v) ==
    IF st.res[r].status = v THEN <<>>
    ELSE <<[kind |-> "status", id |-> r, val |-> v]>>
SetExpires(st, r, v) ==
    IF st.res[r].expires_at = v THEN <<>>
    ELSE <<[kind |-> "expires_at", id |-> r, val |-> v]>>

Rejected(kind) == [result |-> kind, writes |-> <<>>]
Accepted(ws) == [result |-> "ok", writes |-> ws]

\* A decline sets cancelled_by on the loaded instance. Reservation maps no such
\* column, so no UPDATE carries it: it goes out with the response only.
AcceptedBy(ws, who) == [result |-> "ok", writes |-> ws, cancelled_by |-> who]

\* cancelled_by of a reservation as any later load of its row gives it
\* (ReservationResponse.cancelled_by, None when the row has no such attribute)
cancelled_by(st, r) ==
    IF "cancelled_by" \in DOMAIN st.res[r] THEN st.res[r].cancelled_by ELSE "None"

\* ------------------------------------------------------------ queries
Exists(st, r) == r \in 1..Len(st.res) /\ st.res[r].status # "DELETED"

\* check_and_block_user / the sweep: a user's reservations whose book is OVERDUE
overdue_books_count(st, u) ==
    Cardinality({r \in 1..Len(st.res) :
        st.res[r].user_id = u /\ st.book[st.res[r].book_id] = "OVERDUE"})

\* create_reservation: the user's PENDING, CONFIRMED, ACTIVE, EXPIRED reservations
total_relevant_reservations(st, u) ==
    Cardinality({r \in 1..Len(st.res) :
        /\ st.res[r].user_id = u
        /\ st.res[r].status \in {"PENDING", "CONFIRMED", "ACTIVE", "EXPIRED"}})

\* create_reservation: a PENDING or CONFIRMED reservation of the book
existing_reservation(st, b) ==
    \E r \in 1..Len(st.res) :
        st.res[r].book_id = b /\ st.res[r].status \in {"PENDING", "CONFIRMED"}

\* ----------------------------------------------------------- handlers
\* create_reservation with the limit test off by one (> for >=)
create_reservation_limit_off_by_one(st, u, b, t) ==
    IF st.blocked[u] THEN Rejected("Forbidden")
    ELSE IF overdue_books_count(st, u) >= OverdueBlockThreshold
    THEN [result |-> "Forbidden",
          writes |-> <<[kind |-> "is_blocked", id |-> u, val |-> TRUE]>>]
    ELSE IF total_relevant_reservations(st, u) > ReservationLimit THEN Rejected("LimitExceeded")
    ELSE IF b \notin DOMAIN st.book THEN Rejected("NotFound")
    ELSE IF existing_reservation(st, b) THEN Rejected("Conflict")
    ELSE IF st.book[b] # "AVAILABLE" THEN Rejected("Conflict")
    ELSE Accepted(<<[kind |-> "insert", id |-> 0,
                     val |-> [book_id |-> b, user_id |-> u, status |-> "PENDING",
                              expires_at |-> t + PickupDays]],
                    [kind |-> "book", id |-> b, val |-> "RESERVED"]>>)

\* create_reservation without get_active_user_id's test of is_blocked
create_reservation_blocked_unchecked(st, u, b, t) ==
    IF overdue_books_count(st, u) >= OverdueBlockThreshold
    THEN [result |-> "Forbidden",
          writes |-> <<[kind |-> "is_blocked", id |-> u, val |-> TRUE]>>]
    ELSE IF total_relevant_reservations(st, u) >= ReservationLimit THEN Rejected("LimitExceeded")
    ELSE IF b \notin DOMAIN st.book THEN Rejected("NotFound")
    ELSE IF existing_reservation(st, b) THEN Rejected("Conflict")
    ELSE IF st.book[b] # "AVAILABLE" THEN Rejected("Conflict")
    ELSE Accepted(<<[kind |-> "insert", id |-> 0,
                     val |-> [book_id |-> b, user_id |-> u, status |-> "PENDING",
                              expires_at |-> t + PickupDays]],
                    [kind |-> "book", id |-> b, val |-> "RESERVED"]>>)

\* create_reservation answering a missing book as it answers a reserved one
create_reservation_missing_is_conflict(st, u, b, t) ==
    IF st.blocked[u] THEN Rejected("Forbidden")
    ELSE IF overdue_books_count(st, u) >= OverdueBlockThreshold
    THEN [result |-> "Forbidden",
          writes |-> <<[kind |-> "is_blocked", id |-> u, val |-> TRUE]>>]
    ELSE IF total_relevant_reservations(st, u) >= ReservationLimit THEN Rejected("LimitExceeded")
    ELSE IF b \notin DOMAIN st.book THEN Rejected("Conflict")
    ELSE IF existing_reservation(st, b) THEN Rejected("Conflict")
    ELSE IF st.book[b] # "AVAILABLE" THEN Rejected("Conflict")
    ELSE Accepted(<<[kind |-> "insert", id |-> 0,
                     val |-> [book_id |-> b, user_id |-> u, status |-> "PENDING",
                              expires_at |-> t + PickupDays]],
                    [kind |-> "book", id |-> b, val |-> "RESERVED"]>>)

\* POST /reservations/reservation, with its dependency get_active_user_id
create_reservation(st, u, b, t) ==
    IF st.blocked[u] THEN Rejected("Forbidden")
    ELSE IF overdue_books_count(st, u) >= OverdueBlockThreshold
    THEN [result |-> "Forbidden",
          writes |-> <<[kind |-> "is_blocked", id |-> u, val |-> TRUE]>>]
    ELSE IF total_relevant_reservations(st, u) >= ReservationLimit THEN Rejected("LimitExceeded")
    ELSE IF b \notin DOMAIN st.book THEN Rejected("NotFound")
    ELSE IF existing_reservation(st, b) THEN Rejected("Conflict")
    ELSE IF st.book[b] # "AVAILABLE" THEN Rejected("Conflict")
    ELSE Accepted(<<[kind |-> "insert", id |-> 0,
                     val |-> [book_id |-> b, user_id |-> u, status |-> "PENDING",
                              expires_at |-> t + PickupDays]],
                    [kind |-> "book", id |-> b, val |-> "RESERVED"]>>)

\* the librarian's confirm without its test of the book's status
confirm_reservation_by_librarian_any_book(st, r, t) ==
    IF ~Exists(st, r) THEN Rejected("NotFound")
    ELSE IF st.res[r].status # "PENDING" THEN Rejected("Conflict")
    ELSE Accepted(SetExpires(st, r, t + PickupDays) \o SetStatus(st, r, "CONFIRMED"))

\* PATCH /reservations/{id}/confirm/librarian
confirm_reservation_by_librarian(st, r, t) ==
    IF ~Exists(st, r) THEN Rejected("NotFound")
    ELSE IF st.res[r].status # "PENDING" THEN Rejected("Conflict")
    ELSE IF st.book[st.res[r].book_id] \in {"CHECKED_OUT", "OVERDUE"}
    THEN Rejected("Conflict")
    ELSE Accepted(SetExpires(st, r, t + PickupDays) \o SetStatus(st, r, "CONFIRMED"))

\* the librarian's decline without its test of the book's status
decline_reservation_by_librarian_any_book(st, r) ==
    IF ~Exists(st, r) THEN Rejected("NotFound")
    ELSE AcceptedBy(SetBook(st, st.res[r].book_id, "AVAILABLE")
                    \o SetStatus(st, r, "CANCELLED"), "librarian")

\* PATCH /reservations/{id}/decline/librarian
decline_reservation_by_librarian(st, r) ==
    IF ~Exists(st, r) THEN Rejected("NotFound")
    ELSE IF st.book[st.res[r].book_id] \in {"CHECKED_OUT", "OVERDUE"}
    THEN Rejected("Conflict")
    ELSE AcceptedBy(SetBook(st, st.res[r].book_id, "AVAILABLE")
                    \o SetStatus(st, r, "CANCELLED"), "librarian")

\* the checkout without its test of the book's status
confirm_book_checkout_by_librarian_any_book(st, r, t) ==
    IF ~Exists(st, r) \/ st.res[r].status # "CONFIRMED" THEN Rejected("NotFound")
    ELSE Accepted(SetExpires(st, r, t + LoanDays) \o SetStatus(st, r, "ACTIVE")
                  \o SetBook(st, st.res[r].book_id, "CHECKED_OUT"))

\* the checkout refusing a reservation past its pickup deadline
confirm_book_checkout_by_librarian_deadline_checked(st, r, t) ==
    IF ~Exists(st, r) \/ st.res[r].status # "CONFIRMED" THEN Rejected("NotFound")
    ELSE IF st.book[st.res[r].book_id] # "RESERVED" THEN Rejected("Conflict")
    ELSE IF st.res[r].expires_at < t THEN Rejected("Conflict")
    ELSE Accepted(SetExpires(st, r, t + LoanDays) \o SetStatus(st, r, "ACTIVE")
                  \o SetBook(st, st.res[r].book_id, "CHECKED_OUT"))

\* PATCH /reservations/{id}/checkout/librarian
confirm_book_checkout_by_librarian(st, r, t) ==
    IF ~Exists(st, r) \/ st.res[r].status # "CONFIRMED" THEN Rejected("NotFound")
    ELSE IF st.book[st.res[r].book_id] # "RESERVED" THEN Rejected("Conflict")
    ELSE Accepted(SetExpires(st, r, t + LoanDays) \o SetStatus(st, r, "ACTIVE")
                  \o SetBook(st, st.res[r].book_id, "CHECKED_OUT"))

\* the return accepting a CHECKED_OUT book only
confirm_book_return_by_librarian_checked_out_only(st, r) ==
    IF ~Exists(st, r) THEN Rejected("NotFound")
    ELSE IF st.book[st.res[r].book_id] # "CHECKED_OUT" THEN Rejected("Conflict")
    ELSE Accepted(SetBook(st, st.res[r].book_id, "AVAILABLE")
                  \o SetStatus(st, r, "COMPLETED"))

\* PATCH /reservations/{id}/return/librarian
confirm_book_return_by_librarian(st, r) ==
    IF ~Exists(st, r) THEN Rejected("NotFound")
    ELSE IF st.book[st.res[r].book_id] \notin {"CHECKED_OUT", "OVERDUE"}
    THEN Rejected("Conflict")
    ELSE Accepted(SetBook(st, st.res[r].book_id, "AVAILABLE")
                  \o SetStatus(st, r, "COMPLETED"))

\* the reader's decline with the owner tested after the book's status
decline_reservation_user_book_first(st, r, u) ==
    IF ~Exists(st, r) THEN Rejected("NotFound")
    ELSE IF st.book[st.res[r].book_id] \in {"CHECKED_OUT", "OVERDUE"}
    THEN Rejected("Conflict")
    ELSE IF st.res[r].user_id # u THEN Rejected("Forbidden")
    ELSE IF st.res[r].status \notin {"PENDING", "CONFIRMED"} THEN Rejected("Conflict")
    ELSE AcceptedBy(SetBook(st, st.res[r].book_id, "AVAILABLE")
                    \o SetStatus(st, r, "CANCELLED"), "user")

\* PATCH /reservations/{id}/decline/user
decline_reservation_user(st, r, u) ==
    IF ~Exists(st, r) THEN Rejected("NotFound")
    ELSE IF st.res[r].user_id # u THEN Rejected("Forbidden")
    ELSE IF st.book[st.res[r].book_id] \in {"CHECKED_OUT", "OVERDUE"}
    THEN Rejected("Conflict")
    ELSE IF st.res[r].status \notin {"PENDING", "CONFIRMED"} THEN Rejected("Conflict")
    ELSE AcceptedBy(SetBook(st, st.res[r].book_id, "AVAILABLE")
                    \o SetStatus(st, r, "CANCELLED"), "user")

\* -------------------------------------------------------------- sweep
\* the first pass taking PENDING reservations past their deadline as well
RECURSIVE CancelFrom_pending_too(_, _, _)
CancelFrom_pending_too(st, r, t) ==
    IF r > Len(st.res) THEN <<>>
    ELSE IF st.res[r].expires_at < t /\ st.res[r].status \in {"PENDING", "CONFIRMED"}
    THEN LET ws == SetStatus(st, r, "CANCELLED")
                   \o SetBook(st, st.res[r].book_id, "AVAILABLE")
         IN ws \o CancelFrom_pending_too(ApplyAll(st, ws), r + 1, t)
    ELSE CancelFrom_pending_too(st, r + 1, t)

\* 1. CONFIRMED and past the pickup deadline -> CANCELLED, book AVAILABLE
RECURSIVE CancelFrom(_, _, _)
CancelFrom(st, r, t) ==
    IF r > Len(st.res) THEN <<>>
    ELSE IF st.res[r].expires_at < t /\ st.res[r].status = "CONFIRMED"
    THEN LET ws == SetStatus(st, r, "CANCELLED")
                   \o SetBook(st, st.res[r].book_id, "AVAILABLE")
         IN ws \o CancelFrom(ApplyAll(st, ws), r + 1, t)
    ELSE CancelFrom(st, r + 1, t)

\* 2. ACTIVE and past the return deadline -> EXPIRED, book OVERDUE
RECURSIVE ExpireFrom(_, _, _)
ExpireFrom(st, r, t) ==
    IF r > Len(st.res) THEN <<>>
    ELSE IF st.res[r].expires_at < t /\ st.res[r].status = "ACTIVE"
    THEN LET ws == SetStatus(st, r, "EXPIRED")
                   \o SetBook(st, st.res[r].book_id, "OVERDUE")
         IN ws \o ExpireFrom(ApplyAll(st, ws), r + 1, t)
    ELSE ExpireFrom(st, r + 1, t)

\* the third pass blocking at the first reservation on an OVERDUE book
RECURSIVE BlockFrom_at_one(_, _)
BlockFrom_at_one(st, u) ==
    IF u > NumUsers THEN <<>>
    ELSE (IF overdue_books_count(st, u) >= 1 /\ ~st.blocked[u]
          THEN <<[kind |-> "is_blocked", id |-> u, val |-> TRUE]>>
          ELSE <<>>) \o BlockFrom_at_one(st, u + 1)

\* 3. users with 2 or more reservations on OVERDUE books are blocked
RECURSIVE BlockFrom(_, _)
BlockFrom(st, u) ==
    IF u > NumUsers THEN <<>>
    ELSE (IF overdue_books_count(st, u) >= OverdueBlockThreshold /\ ~st.blocked[u]
          THEN <<[kind |-> "is_blocked", id |-> u, val |-> TRUE]>>
          ELSE <<>>) \o BlockFrom(st, u + 1)

\* the third pass setting is_blocked to the outcome of the count, either way
RECURSIVE ReevaluateFrom(_, _)
ReevaluateFrom(st, u) ==
    IF u > NumUsers THEN <<>>
    ELSE LET v == overdue_books_count(st, u) >= OverdueBlockThreshold IN
         (IF st.blocked[u] # v
          THEN <<[kind |-> "is_blocked", id |-> u, val |-> v]>>
          ELSE <<>>) \o ReevaluateFrom(st, u + 1)

\* the sweep with that third pass
check_and_cleanup_reservations_reevaluates(st, t) ==
    LET w1 == CancelFrom(st, 1, t)
        s1 == ApplyAll(st, w1)
        w2 == ExpireFrom(s1, 1, t)
        s2 == ApplyAll(s1, w2)
        w3 == ReevaluateFrom(s2, 1)
    IN Accepted(w1 \o w2 \o w3)

\* the sweep with its third pass run before the second: users are counted
\* before the loans of this run are marked OVERDUE
check_and_cleanup_reservations_blocks_first(st, t) ==
    LET w1 == CancelFrom(st, 1, t)
        s1 == ApplyAll(st, w1)
        w3 == BlockFrom(s1, 1)
        s3 == ApplyAll(s1, w3)
        w2 == ExpireFrom(s3, 1, t)
    IN Accepted(w1 \o w3 \o w2)

\* _check_and_cleanup_reservations
check_and_cleanup_reservations(st, t) ==
    LET w1 == CancelFrom(st, 1, t)
        s1 == ApplyAll(st, w1)
        w2 == ExpireFrom(s1, 1, t)
        s2 == ApplyAll(s1, w2)
        w3 == BlockFrom(s2, 1)
    IN Accepted(w1 \o w2 \o w3)

\* ------------------------------------------------------------ users
RECURSIVE UnblockFrom(_, _, _)
UnblockFrom(st, ids, u) ==
    IF u > NumUsers THEN <<>>
    ELSE (IF u \in ids /\ st.blocked[u]
          THEN <<[kind |-> "is_blocked", id |-> u, val |-> FALSE]>>
          ELSE <<>>) \o UnblockFrom(st, ids, u + 1)

\* PATCH /auth/users/unblock
unblock_users(st, ids) ==
    IF ids = {} THEN Rejected("BadRequest")
    ELSE IF ids \cap DOMAIN st.blocked = {} THEN Rejected("NotFound")
    ELSE IF \A u \in ids \cap DOMAIN st.blocked : ~st.blocked[u]
    THEN Rejected("BadRequest")
    ELSE Accepted(UnblockFrom(st, ids, 1))

\* ------------------------------------------------------------ books
\* PATCH /books/{book_id}: every field of the body is set on the row, the
\* status among them
update_book(st, b, s) ==
    IF b \notin DOMAIN st.book THEN Rejected("NotFound")
    ELSE Accepted(SetBook(st, b, s))

\* the DELETE statements of the books found, by id
RECURSIVE DeleteFrom(_, _)
DeleteFrom(found, b) ==
    IF b > NumBooks THEN <<>>
    ELSE (IF b \in found THEN <<[kind |-> "delete_book", id |-> b, val |-> 0]>>
          ELSE <<>>) \o DeleteFrom(found, b + 1)

\* the bulk delete with OVERDUE left out of the statuses that forbid it
delete_multiple_books_overdue_allowed(st, ids) ==
    IF ids = {} THEN Rejected("BadRequest")
    ELSE LET found == ids \cap DOMAIN st.book IN
         IF found = {} THEN Rejected("NotFound")
         ELSE IF \E b \in found : st.book[b] \in {"RESERVED", "CHECKED_OUT"}
         THEN Rejected("BadRequest")
         ELSE Accepted(DeleteFrom(found, 1))

\* DELETE /books (librarian): the books of the ids given, all or none
delete_multiple_books(st, ids) ==
    IF ids = {} THEN Rejected("BadRequest")
    ELSE LET found == ids \cap DOMAIN st.book IN
         IF found = {} THEN Rejected("NotFound")
         ELSE IF \E b \in found : st.book[b] \in {"RESERVED", "CHECKED_OUT", "OVERDUE"}
         THEN Rejected("BadRequest")
         ELSE Accepted(DeleteFrom(found, 1))

\* ------------------------------------------------------ state machine
Idle == [pc |-> "idle", op |-> "none", user |-> 0, book |-> 0, rid |-> 0, t |-> 0,
         result |-> "none", writes |-> <<>>, seen |-> <<>>, overlaps |-> {}]

Init ==
    /\ book_status = [b \in Books |-> "AVAILABLE"]
    /\ reservations = <<>>
    /\ is_blocked = [u \in Users |-> FALSE]
    /\ now = 0
    /\ proc = [p \in Procs |-> Idle]
    /\ requests = 0
    /\ chat_sessions = <<>>

\* db.commit(): the flushed statements take effect
Commit(ws) ==
    LET st == ApplyAll(Store, ws) IN
    /\ book_status' = st.book
    /\ reservations' = st.res
    /\ is_blocked' = st.blocked

\* One request served alone: its reads and its commit with nothing in between.
Serve(plan) ==
    /\ Commit(plan.writes)
    /\ Len(reservations') <= MaxRes
    /\ UNCHANGED <<now, proc, requests, chat_sessions>>

Create(u, b) == Serve(create_reservation(Store, u, b, now))
Confirm(r) == Serve(confirm_reservation_by_librarian(Store, r, now))
DeclineLibrarian(r) == Serve(decline_reservation_by_librarian(Store, r))
Checkout(r) == Serve(confirm_book_checkout_by_librarian(Store, r, now))
Return(r) == Serve(confirm_book_return_by_librarian(Store, r))
DeclineUser(r, u) == Serve(decline_reservation_user(Store, r, u))
Sweep == Serve(check_and_cleanup_reservations(Store, now))
UnblockUsers(ids) == Serve(unblock_users(Store, ids))
UpdateBook(b, s) == Serve(update_book(Store, b, s))

Tick(t) ==
    /\ now < t
    /\ now' = t
    /\ UNCHANGED <<book_status, reservations, is_blocked, proc, requests, chat_sessions>>

\* Books and users are interchangeable until a reservation or a request names
\* them: a request names an id not named yet only if it is the least such.
UsedBooks == {reservations[r].book_id : r \in 1..Len(reservations)}
                 \cup {proc[p].book : p \in Procs}
UsedUsers == {reservations[r].user_id : r \in 1..Len(reservations)}
                 \cup {proc[p].user : p \in Procs}
LeastFresh(x, S, used) == x \in used \/ x \notin S \/ \A y \in S : y < x => y \in used
Canonical(u, b) == LeastFresh(b, Books, UsedBooks) /\ LeastFresh(u, Users, UsedUsers)

Next ==
    \/ \E u \in Users, b \in Books \cup {MissingBook} : Canonical(u, b) /\ Create(u, b)
    \/ \E r \in ResIds : Confirm(r)
    \/ \E r \in ResIds : DeclineLibrarian(r)
    \/ \E r \in ResIds : Checkout(r)
    \/ \E r \in ResIds : Return(r)
    \/ \E r \in ResIds, u \in Users : DeclineUser(r, u)
    \/ Sweep
    \/ \E ids \in SUBSET Users : UnblockUsers(ids)
    \/ \E t \in Checkpoints : Tick(t)

\* --------------------------------------------------- concurrent workers
\* The plan of a request, on the rows a session reads.
PlanOf(q, st) ==
    CASE q.op = "create" -> create_reservation(st, q.user, q.book, q.t)
      [] q.op = "confirm" -> confirm_reservation_by_librarian(st, q.rid, q.t)
      [] q.op = "decline_librarian" -> decline_reservation_by_librarian(st, q.rid)
      [] q.op = "checkout" -> confirm_book_checkout_by_librarian(st, q.rid, q.t)
      [] q.op = "return" -> confirm_book_return_by_librarian(st, q.rid)
      [] q.op = "decline_user" -> decline_reservation_user(st, q.rid, q.user)
      [] q.op = "sweep" -> check_and_cleanup_reservations(st, q.t)

\* A worker takes a request: the handler's SELECTs run and its checks decide,
\* on the rows committed so far. Its UPDATEs and INSERTs wait for its commit.
Begin(p, op, u, b, r) ==
    LET q == [op |-> op, user |-> u, book |-> b, rid |-> r, t |-> now]
        plan == PlanOf(q, Store)
        running == {o \in Procs \ {p} : proc[o].pc = "inflight"}
    IN
    /\ proc[p].pc # "inflight"
    /\ requests' = requests + 1
    /\ proc' = [o \in Procs |->
                 IF o = p
                 THEN [pc |-> "inflight", op |-> op, user |-> u, book |-> b, rid |-> r,
                       t |-> now, result |-> plan.result, writes |-> plan.writes,
                       seen |-> Store, overlaps |-> running]
                 ELSE [proc[o] EXCEPT !.overlaps =
                         IF o \in running THEN @ \cup {p} ELSE @ \ {p}]]
    /\ UNCHANGED <<book_status, reservations, is_blocked, now, chat_sessions>>

BeginCreate(p, u, b) == Begin(p, "create", u, b, 0)
BeginConfirm(p, r) == Begin(p, "confirm", 0, 0, r)
BeginDeclineLibrarian(p, r) == Begin(p, "decline_librarian", 0, 0, r)
BeginCheckout(p, r) == Begin(p, "checkout", 0, 0, r)
BeginReturn(p, r) == Begin(p, "return", 0, 0, r)
BeginDeclineUser(p, r, u) == Begin(p, "decline_user", u, 0, r)
BeginSweep(p) == Begin(p, "sweep", 0, 0, 0)

\* The worker's commit: the statements of its flush reach the tables, whatever
\* was committed since it read; the response goes out.
Finish(p) ==
    /\ proc[p].pc = "inflight"
    /\ Commit(proc[p].writes)
    /\ proc' = [proc EXCEPT ![p].pc = "done"]
    /\ UNCHANGED <<now, requests, chat_sessions>>

ConcTick(t) ==
    /\ now < t
    /\ requests < MaxRequests
    /\ now' = t
    /\ UNCHANGED <<book_status, reservations, is_blocked, proc, requests, chat_sessions>>

\* the reservation ids a request names: those of the table, and one of no row
ConcResIds == 1..(Len(reservations) + 1)

NextConc ==
    \/ \E p \in Procs, u \in Users, b \in Books \cup {MissingBook} :
          requests < MaxRequests /\ Canonical(u, b) /\ BeginCreate(p, u, b)
    \/ \E p \in Procs, r \in ConcResIds :
          requests < MaxRequests /\ BeginConfirm(p, r)
    \/ \E p \in Procs, r \in ConcResIds :
          requests < MaxRequests /\ BeginDeclineLibrarian(p, r)
    \/ \E p \in Procs, r \in ConcResIds :
          requests < MaxRequests /\ BeginCheckout(p, r)
    \/ \E p \in Procs, r \in ConcResIds :
          requests < MaxRequests /\ BeginReturn(p, r)
    \/ \E p \in Procs, r \in ConcResIds, u \in Users :
          requests < MaxRequests /\ BeginDeclineUser(p, r, u)
    \/ \E p \in Procs : requests < MaxRequests /\ BeginSweep(p)
    \/ \E p \in Procs : Finish(p)
    \/ \E t \in Checkpoints : ConcTick(t)

\* Requests of every kind, interleaved.
SpecConc == Init /\ [][NextConc]_vars

NextCreate ==
    \/ \E p \in Procs, u \in Users, b \in Books :
          requests < MaxCreates /\ Canonical(u, b) /\ BeginCreate(p, u, b)
    \/ \E p \in Procs : Finish(p)

\* createReservation requests alone, interleaved.
SpecCreate == Init /\ [][NextCreate]_vars

\* The reservation handlers, the sweep and the clock, one request at a time.
Spec == Init /\ [][Next]_vars

NextAdmin ==
    \/ \E u \in Users, b \in Books \cup {MissingBook} :
          Len(reservations) < MaxAdminRes /\ Canonical(u, b) /\ Create(u, b)
    \/ \E r \in ResIds : Confirm(r)
    \/ \E r \in ResIds : DeclineLibrarian(r)
    \/ \E r \in ResIds : Checkout(r)
    \/ \E r \in ResIds : Return(r)
    \/ \E r \in ResIds, u \in Users : DeclineUser(r, u)
    \/ Sweep
    \/ \E ids \in SUBSET Users : UnblockUsers(ids)
    \/ \E b \in Books \cup {MissingBook}, s \in BookStatus :
          Canonical(1, b) /\ UpdateBook(b, s)
    \/ Tick(MaxTime)

\* Spec with the librarian's book update among the requests.
SpecAdmin == Init /\ [][NextAdmin]_vars

DeleteBooks(ids) == Serve(delete_multiple_books(Store, ids))

\* Canonical, over the books the table still holds
CatalogCanonical(u, b) ==
    /\ LeastFresh(b, DOMAIN book_status, UsedBooks)
    /\ LeastFresh(u, Users, UsedUsers)

NextCatalog ==
    \/ \E u \in Users, b \in Books \cup {MissingBook} :
          Len(reservations) < MaxCatalogRes /\ CatalogCanonical(u, b) /\ Create(u, b)
    \/ \E r \in ResIds : Confirm(r)
    \/ \E r \in ResIds : DeclineLibrarian(r)
    \/ \E r \in ResIds : Checkout(r)
    \/ \E r \in ResIds : Return(r)
    \/ \E r \in ResIds, u \in Users : DeclineUser(r, u)
    \/ Sweep
    \/ \E ids \in SUBSET (Books \cup {MissingBook}) : DeleteBooks(ids)
    \/ Tick(MaxTime)

\* Spec with the librarian's bulk delete among the requests.
SpecCatalog == Init /\ [][NextCatalog]_vars

\* -------------------------------------------------------- periodic jobs
\* The two periodic tasks as a celery worker runs them, statement by statement:
\* a run holds its own session, whose flushed statements reach the tables at
\* its commit, and hands each notification to the broker (.delay) at the line
\* that sends it. proc[p] is the run of worker p.
JobIdle == [pc |-> "idle", op |-> "none", t |-> 0, rid |-> 0, writes |-> <<>>,
            todo |-> {}, mail |-> {}]

InitJobs ==
    /\ book_status = [b \in Books |-> "AVAILABLE"]
    /\ reservations = <<>>
    /\ is_blocked = [u \in Users |-> FALSE]
    /\ now = 0
    /\ proc = [p \in Procs |-> JobIdle]
    /\ requests = 0
    /\ chat_sessions = <<>>

Running(p) == proc[p].pc \in {"cancel", "expire", "block"}
NoJob == \A p \in Procs : ~Running(p)

\* the rows as the run's session reads them: its flushed statements applied
View(p) == ApplyAll(Store, proc[p].writes)

\* the sweep's first and second SELECT
to_cancel(st, t) ==
    {r \in 1..Len(st.res) : st.res[r].expires_at < t /\ st.res[r].status = "CONFIRMED"}
to_expire(st, t) ==
    {r \in 1..Len(st.res) : st.res[r].expires_at < t /\ st.res[r].status = "ACTIVE"}

JobStep(p, rec) ==
    /\ proc' = [proc EXCEPT ![p] = rec]
    /\ UNCHANGED <<book_status, reservations, is_blocked, now, requests, chat_sessions>>

\* the task starts: datetime.now() is read and the first SELECT runs
StartSweep(p) ==
    /\ NoJob
    /\ requests < MaxJobs
    /\ requests' = requests + 1
    /\ proc' = [proc EXCEPT ![p] =
                  [pc |-> "cancel", op |-> "sweep", t |-> now, rid |-> 0,
                   writes |-> <<>>, todo |-> to_cancel(Store, now), mail |-> {}]]
    /\ UNCHANGED <<book_status, reservations, is_blocked, now, chat_sessions>>

\* one turn of the first loop: the row and its book are set, flushed, and the
\* cancellation mail is sent
CancelRow(p, r) ==
    /\ proc[p].pc = "cancel"
    /\ r \in proc[p].todo
    /\ LET v == View(p) IN
       JobStep(p, [proc[p] EXCEPT
           !.writes = @ \o SetStatus(v, r, "CANCELLED")
                        \o SetBook(v, v.res[r].book_id, "AVAILABLE"),
           !.mail = @ \cup {[kind |-> "reservation_cancellation", id |-> r]},
           !.todo = @ \ {r}])

\* the second SELECT, through the same session
SelectLoans(p) ==
    /\ proc[p].pc = "cancel"
    /\ proc[p].todo = {}
    /\ JobStep(p, [proc[p] EXCEPT !.pc = "expire",
                                  !.todo = to_expire(View(p), proc[p].t)])

\* one turn of the second loop: no mail, a log line only
ExpireRow(p, r) ==
    /\ proc[p].pc = "expire"
    /\ r \in proc[p].todo
    /\ LET v == View(p) IN
       JobStep(p, [proc[p] EXCEPT
           !.writes = @ \o SetStatus(v, r, "EXPIRED")
                        \o SetBook(v, v.res[r].book_id, "OVERDUE"),
           !.todo = @ \ {r}])

\* the third SELECT: every user with their reservations
SelectUsers(p) ==
    /\ proc[p].pc = "expire"
    /\ proc[p].todo = {}
    /\ JobStep(p, [proc[p] EXCEPT !.pc = "block", !.todo = Users])

\* one turn of the third loop
BlockUser(p, u) ==
    /\ proc[p].pc = "block"
    /\ u \in proc[p].todo
    /\ LET v == View(p) IN
       IF overdue_books_count(v, u) >= OverdueBlockThreshold /\ ~v.blocked[u]
       THEN JobStep(p, [proc[p] EXCEPT
                !.writes = Append(@, [kind |-> "is_blocked", id |-> u, val |-> TRUE]),
                !.mail = @ \cup {[kind |-> "user_blocked", id |-> u]},
                !.todo = @ \ {u}])
       ELSE JobStep(p, [proc[p] EXCEPT !.todo = @ \ {u}])

\* db.commit() at the end of the task
CommitSweep(p) ==
    /\ proc[p].pc = "block"
    /\ proc[p].todo = {}
    /\ Commit(proc[p].writes)
    /\ proc' = [proc EXCEPT ![p].pc = "done", ![p].writes = <<>>]
    /\ UNCHANGED <<now, requests, chat_sessions>>

\* The flush of row r raises (the connection is lost, the statement times
\* out): nothing in the task catches it, the session is closed without a
\* commit and every statement of the run is rolled back. What was handed to
\* the broker stays handed.
FailFlush(p, r) ==
    /\ proc[p].pc \in {"cancel", "expire"}
    /\ r \in proc[p].todo
    /\ JobStep(p, [proc[p] EXCEPT !.pc = "failed", !.rid = r, !.writes = <<>>])

\* the commit itself raises
FailCommit(p) ==
    /\ proc[p].pc = "block"
    /\ proc[p].todo = {}
    /\ JobStep(p, [proc[p] EXCEPT !.pc = "failed", !.writes = <<>>])

\* _check_and_send_return_reminders: the ACTIVE reservations due in
\* ReminderLeadDays, give or take ReminderWindow, are each sent a reminder.
\* Nothing is written: no row records that a reminder went out.
to_remind(st, t) ==
    {r \in 1..Len(st.res) :
        /\ st.res[r].status = "ACTIVE"
        /\ st.res[r].expires_at >= t + ReminderLeadDays - ReminderWindow
        /\ st.res[r].expires_at <= t + ReminderLeadDays + ReminderWindow}

\* A worker runs the task when it takes the message off the queue, at once or
\* behind a message that waited there.
SendReturnReminders(p) ==
    /\ NoJob
    /\ requests < MaxJobs
    /\ requests' = requests + 1
    /\ proc' = [proc EXCEPT ![p] =
                  [pc |-> "done", op |-> "send_return_reminders", t |-> now, rid |-> 0,
                   writes |-> <<>>, todo |-> {},
                   mail |-> {[kind |-> "return_reminder", id |-> r] :
                                r \in to_remind(Store, now)}]]
    /\ UNCHANGED <<book_status, reservations, is_blocked, now, chat_sessions>>

\* Canonical, for workers that name no book and no user
JobCanonical(u, b) ==
    /\ LeastFresh(b, Books, {reservations[r].book_id : r \in 1..Len(reservations)})
    /\ LeastFresh(u, Users, {reservations[r].user_id : r \in 1..Len(reservations)})

NextJobs ==
    \/ \E u \in Users, b \in Books :
          /\ NoJob /\ Len(reservations) < MaxJobRes
          /\ JobCanonical(u, b) /\ Create(u, b)
    \/ \E r \in ResIds : NoJob /\ Confirm(r)
    \/ \E r \in ResIds : NoJob /\ Checkout(r)
    \/ \E r \in ResIds : NoJob /\ Return(r)
    \/ \E p \in Procs : StartSweep(p)
    \/ \E p \in Procs, r \in ResIds : CancelRow(p, r)
    \/ \E p \in Procs : SelectLoans(p)
    \/ \E p \in Procs, r \in ResIds : ExpireRow(p, r)
    \/ \E p \in Procs : SelectUsers(p)
    \/ \E p \in Procs, u \in Users : BlockUser(p, u)
    \/ \E p \in Procs : CommitSweep(p)
    \/ \E p \in Procs, r \in ResIds : FailFlush(p, r)
    \/ \E p \in Procs : FailCommit(p)
    \/ \E p \in Procs : SendReturnReminders(p)
    \/ \E t \in JobCheckpoints : NoJob /\ Tick(t)

\* The periodic jobs, one run at a time, among requests served between runs.
SpecJobs == InitJobs /\ [][NextJobs]_vars

\* ----------------------------------------------------------------- chat
\* The chat sessions a reader opens and a librarian takes. A take_chat request
\* is served in two steps, its SELECT and its commit, by one of the workers.
Librarians == 1..NumLibrarians

\* the place of a deleted row in the chat_sessions table
NoSession == [reader_id |-> 0, librarian_id |-> 0, status |-> "deleted"]

SessionExists(cs, s) == s \in 1..Len(cs) /\ cs[s].status # "deleted"

ChatIdle == [pc |-> "idle", op |-> "none", librarian |-> 0, session |-> 0,
             result |-> "none"]

InitChat ==
    /\ book_status = [b \in Books |-> "AVAILABLE"]
    /\ reservations = <<>>
    /\ is_blocked = [u \in Users |-> FALSE]
    /\ now = 0
    /\ proc = [p \in Procs |-> ChatIdle]
    /\ requests = 0
    /\ chat_sessions = <<>>

ChatStep(cs) ==
    /\ chat_sessions' = cs
    /\ UNCHANGED <<book_status, reservations, is_blocked, now, proc, requests>>

\* POST /start: a reader with no pending or active session opens one, pending
\* and with no librarian (librarian_id NULL, written 0)
start_chat(cs, u) ==
    IF \E s \in 1..Len(cs) : cs[s].reader_id = u /\ cs[s].status \in {"pending", "active"}
    THEN cs
    ELSE Append(cs, [reader_id |-> u, librarian_id |-> 0, status |-> "pending"])

StartChat(u) ==
    /\ Len(chat_sessions) < MaxSessions
    /\ ChatStep(start_chat(chat_sessions, u))

\* take_chat, its SELECT: the session of that id if it is pending
take_chat(cs, s) ==
    IF SessionExists(cs, s) /\ cs[s].status = "pending" THEN "ok" ELSE "NotFound"

BeginTakeChat(p, l, s) ==
    /\ proc[p].pc # "inflight"
    /\ requests < MaxChatRequests
    /\ requests' = requests + 1
    /\ proc' = [proc EXCEPT ![p] =
                  [pc |-> "inflight", op |-> "take_chat", librarian |-> l,
                   session |-> s, result |-> take_chat(chat_sessions, s)]]
    /\ UNCHANGED <<book_status, reservations, is_blocked, now, chat_sessions>>

\* take_chat, its commit: UPDATE chat_sessions SET librarian_id, status WHERE
\* id = s, on the row as it is by then. A row deleted since the SELECT matches
\* no UPDATE and the commit raises.
FinishTakeChat(p) ==
    LET q == proc[p] IN
    /\ q.pc = "inflight"
    /\ IF q.result # "ok"
       THEN /\ proc' = [proc EXCEPT ![p].pc = "done"]
            /\ UNCHANGED chat_sessions
       ELSE IF SessionExists(chat_sessions, q.session)
       THEN /\ chat_sessions' = [chat_sessions EXCEPT
                                   ![q.session].librarian_id = q.librarian,
                                   ![q.session].status = "active"]
            /\ proc' = [proc EXCEPT ![p].pc = "done"]
       ELSE /\ proc' = [proc EXCEPT ![p].pc = "done", ![p].result = "error"]
            /\ UNCHANGED chat_sessions
    /\ UNCHANGED <<book_status, reservations, is_blocked, now, requests>>

\* POST /chat/{id}/close: the librarian of an active session deletes it
close_chat(cs, s, l) ==
    IF SessionExists(cs, s) /\ cs[s].librarian_id = l /\ cs[s].status = "active"
    THEN [cs EXCEPT ![s] = NoSession]
    ELSE cs

CloseChat(s, l) ==
    /\ close_chat(chat_sessions, s, l) # chat_sessions
    /\ ChatStep(close_chat(chat_sessions, s, l))

\* the websocket of a participant of the session disconnects: the session is
\* deleted, whatever its status
LeaveChat(s) ==
    /\ SessionExists(chat_sessions, s)
    /\ ChatStep([chat_sessions EXCEPT ![s] = NoSession])

NextChat ==
    \/ \E u \in Users : StartChat(u)
    \/ \E p \in Procs, l \in Librarians, s \in 1..MaxSessions : BeginTakeChat(p, l, s)
    \/ \E p \in Procs : FinishTakeChat(p)
    \/ \E s \in 1..MaxSessions, l \in Librarians : CloseChat(s, l)
    \/ \E s \in 1..MaxSessions : LeaveChat(s)

\* The chat requests, take_chat interleaved.
SpecChat == InitChat /\ [][NextChat]_vars

\* ============================================================== claims
Live == {"PENDING", "CONFIRMED", "ACTIVE"}
Outstanding == {"PENDING", "CONFIRMED", "ACTIVE", "EXPIRED"}
Terminal == {"CANCELLED", "COMPLETED", "EXPIRED"}
Rows == 1..Len(reservations)
LiveOf(b) == {r \in Rows : reservations[r].book_id = b /\ reservations[r].status \in Live}

\* C1: a book is AVAILABLE if and only if no reservation of it is PENDING,
\* CONFIRMED or ACTIVE.
C1_AvailableIffNoLive ==
    \A b \in Books : book_status[b] = "AVAILABLE" <=> LiveOf(b) = {}

\* C2: a book has at most one live reservation at any time.
C2_AtMostOneLive ==
    \A b \in Books : Cardinality(LiveOf(b)) <= 1

\* C3: a reservation that is CANCELLED, COMPLETED or EXPIRED keeps that status
\* in every later step.
C3_TerminalIsFinal ==
    [][\A r \in Rows :
          reservations[r].status \in Terminal
              => reservations'[r].status = reservations[r].status]_vars

\* C7: PENDING or CONFIRMED goes with a RESERVED book, ACTIVE with a
\* CHECKED_OUT book, and an OVERDUE book has an EXPIRED reservation.
C7_StatusesAgree ==
    /\ \A r \in Rows :
          /\ reservations[r].status \in {"PENDING", "CONFIRMED"}
                => book_status[reservations[r].book_id] = "RESERVED"
          /\ reservations[r].status = "ACTIVE"
                => book_status[reservations[r].book_id] = "CHECKED_OUT"
    /\ \A b \in Books :
          book_status[b] = "OVERDUE"
              => \E r \in Rows : /\ reservations[r].book_id = b
                                 /\ reservations[r].status = "EXPIRED"

\* C4: of two createReservation calls for the same book that overlap, at most
\* one succeeds, and the book never has two PENDING reservations.
C4_OneCreateWins ==
    /\ \A p, q \in Procs :
          (/\ p # q
           /\ proc[p].pc = "done" /\ proc[q].pc = "done"
           /\ q \in proc[p].overlaps
           /\ proc[p].op = "create" /\ proc[q].op = "create"
           /\ proc[p].book = proc[q].book)
              => ~(proc[p].result = "ok" /\ proc[q].result = "ok")
    /\ \A b \in Books :
          Cardinality({r \in Rows : /\ reservations[r].book_id = b
                                    /\ reservations[r].status = "PENDING"}) <= 1

OutstandingOf(u) ==
    {r \in Rows : reservations[r].user_id = u /\ reservations[r].status \in Outstanding}
OverdueLinked(u) ==
    {r \in Rows : /\ reservations[r].user_id = u
                  /\ book_status[reservations[r].book_id] = "OVERDUE"}

\* C5: however createReservation calls of one user on different books
\* interleave, the user never has more than 3 outstanding reservations.
C5_QuotaUnderRace ==
    \A u \in Users :
        (\A r1, r2 \in OutstandingOf(u) :
            r1 # r2 => reservations[r1].book_id # reservations[r2].book_id)
            => Cardinality(OutstandingOf(u)) <= 3

\* C6, as stated: a user with 3 outstanding reservations who asks for an
\* AVAILABLE book gets LimitExceeded and nothing is written; with one of the 3
\* CANCELLED or COMPLETED the request succeeds. AVAILABLE is read in the
\* statement's favour, as a book that has no live reservation either.
C6_QuotaAsStated ==
    \A u \in Users, b \in Books :
        LET plan == create_reservation(Store, u, b, now) IN
        (book_status[b] = "AVAILABLE" /\ LiveOf(b) = {}) =>
            /\ Cardinality(OutstandingOf(u)) = 3
                  => plan.result = "LimitExceeded" /\ plan.writes = <<>>
            /\ (/\ Cardinality(OutstandingOf(u)) = 2
                /\ \E r \in Rows : /\ reservations[r].user_id = u
                                   /\ reservations[r].status \in {"CANCELLED", "COMPLETED"})
                  => plan.result = "ok"

\* C6, amended: for a user who is not blocked and has fewer than 2
\* reservations on OVERDUE books, createReservation on an AVAILABLE book with
\* no live reservation answers LimitExceeded and writes nothing when 3 or more
\* of the user's reservations are outstanding, and succeeds, inserting a
\* PENDING reservation, when fewer than 3 are.
C6_Quota ==
    \A u \in Users, b \in Books :
        LET plan == create_reservation(Store, u, b, now) IN
        (/\ book_status[b] = "AVAILABLE" /\ LiveOf(b) = {}
         /\ ~is_blocked[u] /\ Cardinality(OverdueLinked(u)) < 2) =>
            /\ Cardinality(OutstandingOf(u)) >= 3
                  => plan.result = "LimitExceeded" /\ plan.writes = <<>>
            /\ Cardinality(OutstandingOf(u)) < 3
                  => /\ plan.result = "ok"
                     /\ \E i \in 1..Len(plan.writes) :
                           /\ plan.writes[i].kind = "insert"
                           /\ plan.writes[i].val.user_id = u
                           /\ plan.writes[i].val.book_id = b
                           /\ plan.writes[i].val.status = "PENDING"

\* C6 witness: a reader with 3 outstanding reservations, not blocked, is
\* turned away from an AVAILABLE book with LimitExceeded.
C6_Witness ==
    \E u \in Users, b \in Books :
        /\ book_status[b] = "AVAILABLE" /\ LiveOf(b) = {}
        /\ ~is_blocked[u] /\ Cardinality(OverdueLinked(u)) < 2
        /\ Cardinality(OutstandingOf(u)) = 3
        /\ create_reservation(Store, u, b, now).result = "LimitExceeded"

\* The request a worker served, and what serving it alone on st leaves.
RequestOf(p) == [op |-> proc[p].op, user |-> proc[p].user, book |-> proc[p].book,
                 rid |-> proc[p].rid, t |-> proc[p].t]
Run(q, st) == ApplyAll(st, PlanOf(q, st).writes)
BookOf(q, st) ==
    IF q.op = "create" THEN q.book
    ELSE IF q.op = "sweep" THEN 0
    ELSE IF Exists(st, q.rid) THEN st.res[q.rid].book_id ELSE -1

\* C8: two overlapping requests on one book leave the tables as one of the two
\* serial orders of the same requests would.
C8_Linearizable ==
    \A p, q \in Procs :
        LET s0 == proc[p].seen
            a == RequestOf(p)
            b == RequestOf(q)
        IN
        (/\ p # q
         /\ proc[p].pc = "done" /\ proc[q].pc = "done"
         /\ q \in proc[p].overlaps
         /\ proc[q].seen = s0
         /\ BookOf(a, s0) = BookOf(b, s0) \/ BookOf(a, s0) = 0 \/ BookOf(b, s0) = 0
         /\ BookOf(a, s0) # -1 /\ BookOf(b, s0) # -1
         /\ Store = ApplyAll(ApplyAll(s0, proc[p].writes), proc[q].writes))
            => Store \in {Run(b, Run(a, s0)), Run(a, Run(b, s0))}

\* C9: of two librarian confirm calls for the same reservation that overlap,
\* at most one succeeds.
C9_OneConfirmWins ==
    \A p, q \in Procs :
        (/\ p # q
         /\ proc[p].pc = "done" /\ proc[q].pc = "done"
         /\ q \in proc[p].overlaps
         /\ proc[p].op = "confirm" /\ proc[q].op = "confirm"
         /\ proc[p].rid = proc[q].rid)
            => ~(proc[p].result = "ok" /\ proc[q].result = "ok")

\* C10: a sweep run right after a sweep, the clock not moved, changes no book
\* status, no reservation and no is_blocked flag.
C10_SweepIdempotent ==
    LET once == ApplyAll(Store, check_and_cleanup_reservations(Store, now).writes) IN
    ApplyAll(once, check_and_cleanup_reservations(once, now).writes) = once

\* C10 witness: a sweep has expired a loan and blocked a reader, and has
\* nothing left to do.
C10_Witness ==
    /\ \E r \in Rows : reservations[r].status = "EXPIRED"
    /\ \E u \in Users : is_blocked[u] /\ Cardinality(OverdueLinked(u)) >= 2
    /\ check_and_cleanup_reservations(Store, now).writes = <<>>

\* The tables as a sweep run now leaves them.
AfterSweep == ApplyAll(Store, check_and_cleanup_reservations(Store, now).writes)

\* C11: after a sweep, every reservation that was CONFIRMED and past its
\* deadline is CANCELLED with its book AVAILABLE, and every other CONFIRMED
\* reservation is still CONFIRMED.
C11_PickupsSwept ==
    \A r \in Rows :
        reservations[r].status = "CONFIRMED" =>
            IF reservations[r].expires_at < now
            THEN /\ AfterSweep.res[r].status = "CANCELLED"
                 /\ AfterSweep.book[reservations[r].book_id] = "AVAILABLE"
            ELSE AfterSweep.res[r].status = "CONFIRMED"

\* C13: after a sweep, every reservation that was ACTIVE and past its deadline
\* is EXPIRED with its book OVERDUE, and every other ACTIVE reservation is still
\* ACTIVE with its book CHECKED_OUT.
C13_LoansSwept ==
    \A r \in Rows :
        reservations[r].status = "ACTIVE" =>
            IF reservations[r].expires_at < now
            THEN /\ AfterSweep.res[r].status = "EXPIRED"
                 /\ AfterSweep.book[reservations[r].book_id] = "OVERDUE"
            ELSE /\ AfterSweep.res[r].status = "ACTIVE"
                 /\ AfterSweep.book[reservations[r].book_id] = "CHECKED_OUT"

\* C14: after a sweep, every user with 2 or more reservations whose book is
\* OVERDUE is blocked, the loans that became overdue in this sweep counted.
C14_DelinquentBlocked ==
    \A u \in Users :
        overdue_books_count(AfterSweep, u) >= OverdueBlockThreshold
            => AfterSweep.blocked[u]

\* C14 witness: a reader, not blocked, with two loans past their deadline: the
\* sweep marks both books OVERDUE and blocks the reader in the same run.
C14_Witness ==
    \E u \in Users :
        /\ ~is_blocked[u]
        /\ overdue_books_count(Store, u) = 0
        /\ Cardinality({r \in Rows : /\ reservations[r].user_id = u
                                     /\ reservations[r].status = "ACTIVE"
                                     /\ reservations[r].expires_at < now}) >= 2
        /\ AfterSweep.blocked[u]

\* C12: a reservation the sweep cancels has cancelled_by = "system".
C12_SystemCancels ==
    \A r \in Rows :
        (reservations[r].status = "CONFIRMED" /\ AfterSweep.res[r].status = "CANCELLED")
            => cancelled_by(AfterSweep, r) = "system"

\* C15: declining a reservation whose book is CHECKED_OUT or OVERDUE, as the
\* librarian or as the reader it belongs to, is answered Conflict and writes
\* nothing.
C15_DeclineOfLoanRejected ==
    \A r \in Rows :
        book_status[reservations[r].book_id] \in {"CHECKED_OUT", "OVERDUE"} =>
            /\ decline_reservation_by_librarian(Store, r) = Rejected("Conflict")
            /\ decline_reservation_user(Store, r, reservations[r].user_id)
                  = Rejected("Conflict")

\* C15 witness: a book is out on loan, and the decline of its ACTIVE
\* reservation is answered Conflict to the librarian and to the reader.
C15_Witness ==
    \E r \in Rows :
        /\ reservations[r].status = "ACTIVE"
        /\ book_status[reservations[r].book_id] = "CHECKED_OUT"
        /\ decline_reservation_by_librarian(Store, r).result = "Conflict"
        /\ decline_reservation_user(Store, r, reservations[r].user_id).result = "Conflict"

\* The tables as a handler's plan leaves them.
After(plan) == ApplyAll(Store, plan.writes)

\* C16: a successful createReservation adds exactly one reservation, of that
\* user and book, PENDING and with no expires_at, sets the book RESERVED and
\* changes no other reservation and no other book.
C16_CreateEffect ==
    \A u \in Users, b \in Books :
        LET plan == create_reservation(Store, u, b, now)
            after == After(plan)
            n == Len(reservations) + 1
        IN
        plan.result = "ok" =>
            /\ Len(after.res) = n
            /\ after.res[n].user_id = u /\ after.res[n].book_id = b
            /\ after.res[n].status = "PENDING"
            /\ after.res[n].expires_at \notin Int
            /\ SubSeq(after.res, 1, n - 1) = reservations
            /\ after.book = [book_status EXCEPT ![b] = "RESERVED"]

\* C17: expires_at of a reservation changes only in a step that takes it from
\* PENDING to CONFIRMED or from CONFIRMED to ACTIVE, and a new reservation has
\* none.
C17_ExpiresAtFrame ==
    [][\A r \in 1..Len(reservations') :
          IF r <= Len(reservations)
          THEN reservations'[r].expires_at # reservations[r].expires_at
                  => \/ /\ reservations[r].status = "PENDING"
                        /\ reservations'[r].status = "CONFIRMED"
                     \/ /\ reservations[r].status = "CONFIRMED"
                        /\ reservations'[r].status = "ACTIVE"
          ELSE reservations'[r].expires_at \notin Int]_vars

\* C18: the librarian's confirm succeeds exactly when the reservation exists,
\* is PENDING and its book is neither CHECKED_OUT nor OVERDUE; then the
\* reservation is CONFIRMED with expires_at = now + PickupDays and nothing else
\* changes; otherwise the answer is NotFound or Conflict and nothing changes.
C18_ConfirmExact ==
    \A r \in ResIds :
        LET plan == confirm_reservation_by_librarian(Store, r, now)
            ok == /\ r \in Rows
                  /\ reservations[r].status = "PENDING"
                  /\ book_status[reservations[r].book_id] \notin {"CHECKED_OUT", "OVERDUE"}
        IN
        /\ plan.result = "ok" <=> ok
        /\ ok => After(plan) = [Store EXCEPT !.res[r].status = "CONFIRMED",
                                             !.res[r].expires_at = now + PickupDays]
        /\ ~ok => plan.result \in {"NotFound", "Conflict"} /\ After(plan) = Store

\* C18 witness: a confirm served on a later day than the reservation was
\* created has set the pickup deadline counted from that day.
C18_Witness ==
    /\ now > 0
    /\ \E r \in Rows : /\ reservations[r].status = "CONFIRMED"
                        /\ reservations[r].expires_at = now + PickupDays
                        /\ book_status[reservations[r].book_id] = "RESERVED"

\* C19: checkout succeeds exactly when the reservation is CONFIRMED and its
\* book RESERVED; then the reservation is ACTIVE, its expires_at is
\* now + LoanDays, later than the one it replaces, the book is CHECKED_OUT and
\* nothing else changes; otherwise it is rejected and nothing changes.
C19_CheckoutExact ==
    \A r \in ResIds :
        LET plan == confirm_book_checkout_by_librarian(Store, r, now)
            ok == /\ r \in Rows
                  /\ reservations[r].status = "CONFIRMED"
                  /\ book_status[reservations[r].book_id] = "RESERVED"
        IN
        /\ plan.result = "ok" <=> ok
        /\ ok => /\ After(plan) =
                       [Store EXCEPT !.res[r].status = "ACTIVE",
                                     !.res[r].expires_at = now + LoanDays,
                                     !.book[reservations[r].book_id] = "CHECKED_OUT"]
                  /\ now + LoanDays > reservations[r].expires_at
        /\ ~ok => plan.result # "ok" /\ After(plan) = Store

\* C19 witness: a checkout has just taken place, and a CONFIRMED reservation
\* whose book is not RESERVED is refused.
C19_Witness ==
    /\ \E r \in Rows : /\ reservations[r].status = "ACTIVE"
                        /\ reservations[r].expires_at = now + LoanDays
                        /\ book_status[reservations[r].book_id] = "CHECKED_OUT"
    /\ \E r \in Rows :
          /\ reservations[r].status = "CONFIRMED"
          /\ book_status[reservations[r].book_id] # "RESERVED"
          /\ confirm_book_checkout_by_librarian(Store, r, now).result = "Conflict"

\* C20: a decline, by the reader or by the librarian, succeeds only for a
\* PENDING or CONFIRMED reservation, and then leaves it CANCELLED, with
\* cancelled_by the role of who declined, and its book AVAILABLE.
C20_DeclineOnlyLive ==
    \A r \in Rows :
        LET lib == decline_reservation_by_librarian(Store, r)
            usr == decline_reservation_user(Store, r, reservations[r].user_id)
            b == reservations[r].book_id
        IN
        /\ lib.result = "ok" =>
              /\ reservations[r].status \in {"PENDING", "CONFIRMED"}
              /\ After(lib).res[r].status = "CANCELLED"
              /\ After(lib).book[b] = "AVAILABLE"
              /\ cancelled_by(After(lib), r) = "librarian"
        /\ usr.result = "ok" =>
              /\ reservations[r].status \in {"PENDING", "CONFIRMED"}
              /\ After(usr).res[r].status = "CANCELLED"
              /\ After(usr).book[b] = "AVAILABLE"
              /\ cancelled_by(After(usr), r) = "user"

\* C21: a reader's decline of a reservation of another user is answered
\* Forbidden and writes nothing, whatever the reservation's status and the
\* status of its book.
C21_ForeignDeclineForbidden ==
    \A r \in Rows, u \in Users :
        reservations[r].user_id # u
            => decline_reservation_user(Store, r, u) = Rejected("Forbidden")

\* C21 witness: a reader is refused the decline of another reader's loan, which
\* its owner is refused with Conflict, and of another reader's PENDING
\* reservation, which its owner may decline.
C21_Witness ==
    /\ \E r \in Rows, u \in Users :
          /\ reservations[r].user_id # u
          /\ book_status[reservations[r].book_id] \in {"CHECKED_OUT", "OVERDUE"}
          /\ decline_reservation_user(Store, r, u).result = "Forbidden"
          /\ decline_reservation_user(Store, r, reservations[r].user_id).result = "Conflict"
    /\ \E r \in Rows, u \in Users :
          /\ reservations[r].user_id # u
          /\ reservations[r].status = "PENDING"
          /\ decline_reservation_user(Store, r, u).result = "Forbidden"
          /\ decline_reservation_user(Store, r, reservations[r].user_id).result = "ok"

\* C22: the return of a reservation succeeds exactly when its book is
\* CHECKED_OUT or OVERDUE; then that reservation is COMPLETED, the book
\* AVAILABLE and nothing else changes; when the book is AVAILABLE or RESERVED
\* the answer is Conflict and nothing changes.
C22_ReturnExact ==
    \A r \in Rows :
        LET plan == confirm_book_return_by_librarian(Store, r)
            b == reservations[r].book_id
        IN
        /\ plan.result = "ok" <=> book_status[b] \in {"CHECKED_OUT", "OVERDUE"}
        /\ plan.result = "ok"
              => After(plan) = [Store EXCEPT !.res[r].status = "COMPLETED",
                                             !.book[b] = "AVAILABLE"]
        /\ book_status[b] \in {"AVAILABLE", "RESERVED"}
              => plan = Rejected("Conflict")

\* C22 witness: the return of an overdue loan is accepted while the return of
\* a reservation whose book is RESERVED is refused.
C22_Witness ==
    /\ \E r \in Rows :
          /\ reservations[r].status = "EXPIRED"
          /\ book_status[reservations[r].book_id] = "OVERDUE"
          /\ confirm_book_return_by_librarian(Store, r).result = "ok"
    /\ \E r \in Rows :
          /\ book_status[reservations[r].book_id] = "RESERVED"
          /\ confirm_book_return_by_librarian(Store, r).result = "Conflict"

\* C23: createReservation of a user whose is_blocked is true is answered
\* Forbidden and writes nothing, for every book id, whatever the book's status
\* and however many reservations the user has.
C23_BlockedForbidden ==
    \A u \in Users, b \in Books \cup {MissingBook} :
        is_blocked[u] => create_reservation(Store, u, b, now) = Rejected("Forbidden")

\* C23 witness: a blocked reader who has returned every book, so that nothing
\* else stands against the request, is refused an AVAILABLE book.
C23_Witness ==
    \E u \in Users, b \in Books :
        /\ is_blocked[u]
        /\ OverdueLinked(u) = {} /\ OutstandingOf(u) = {}
        /\ book_status[b] = "AVAILABLE" /\ LiveOf(b) = {}
        /\ create_reservation(Store, u, b, now).result = "Forbidden"

\* C24, as stated: createReservation with a book id of no book is answered
\* NotFound and inserts no reservation.
C24_MissingBookAsStated ==
    \A u \in Users :
        LET plan == create_reservation(Store, u, MissingBook, now) IN
        /\ plan.result = "NotFound"
        /\ \A i \in 1..Len(plan.writes) : plan.writes[i].kind # "insert"

\* C24, amended: createReservation with a book id of no book inserts no
\* reservation; it is answered NotFound when the user is not blocked, has
\* fewer than 2 reservations on OVERDUE books and fewer than 3 outstanding
\* reservations, Forbidden when the user is blocked or has 2 such reservations,
\* and LimitExceeded otherwise.
C24_MissingBook ==
    \A u \in Users :
        LET plan == create_reservation(Store, u, MissingBook, now)
            forbidden == is_blocked[u] \/ Cardinality(OverdueLinked(u)) >= 2
            over == Cardinality(OutstandingOf(u)) >= 3
        IN
        /\ \A i \in 1..Len(plan.writes) : plan.writes[i].kind # "insert"
        /\ plan.result = IF forbidden THEN "Forbidden"
                         ELSE IF over THEN "LimitExceeded" ELSE "NotFound"

\* C24 witness: one reader is answered NotFound for a missing book while
\* another, at the limit of 3, is answered LimitExceeded for the same id.
C24_Witness ==
    /\ \E u \in Users :
          /\ reservations # <<>>
          /\ create_reservation(Store, u, MissingBook, now) = Rejected("NotFound")
    /\ \E u \in Users :
          /\ ~is_blocked[u] /\ Cardinality(OutstandingOf(u)) = 3
          /\ create_reservation(Store, u, MissingBook, now).result = "LimitExceeded"

\* The plans of the requests a client can make now.
Plans ==
    {create_reservation(Store, u, b, now) : u \in Users, b \in Books \cup {MissingBook}}
        \cup {confirm_reservation_by_librarian(Store, r, now) : r \in ResIds}
        \cup {confirm_book_checkout_by_librarian(Store, r, now) : r \in ResIds}
        \cup {decline_reservation_by_librarian(Store, r) : r \in ResIds}
        \cup {confirm_book_return_by_librarian(Store, r) : r \in ResIds}
        \cup {decline_reservation_user(Store, r, u) : r \in ResIds, u \in Users}

\* C25: a createReservation, confirm, checkout, decline or return that is
\* answered with an error leaves every book status, every reservation and
\* every is_blocked flag as it was.
C25_ErrorsWriteNothing ==
    \A plan \in Plans : plan.result # "ok" => After(plan) = Store

\* the notifications a step hands to the broker
Sent(p) == proc'[p].mail \ proc[p].mail

\* C26: a notification goes out only once the change it announces is
\* committed: the step that sends a cancellation mail leaves the reservation
\* CANCELLED in the table, and the step that sends a blocked-account mail
\* leaves the user's is_blocked true there.
C26_NotifyAfterCommit ==
    [][\A p \in Procs : \A m \in Sent(p) :
          /\ m.kind = "reservation_cancellation"
                => reservations'[m.id].status = "CANCELLED"
          /\ m.kind = "user_blocked" => is_blocked'[m.id]]_vars

\* C27: at most one run of the sweep is in progress at any time.
C27_OneSweepAtATime ==
    Cardinality({p \in Procs : proc[p].pc = "inflight" /\ proc[p].op = "sweep"}) <= 1

\* C28: when the write of one reservation's change fails in a sweep, every
\* other reservation that run found CONFIRMED or ACTIVE past its deadline is
\* transitioned and committed by the run.
C28_OthersStillSwept ==
    [][\A p \in Procs :
          (Running(p) /\ proc'[p].pc = "failed" /\ proc'[p].rid # 0) =>
              /\ \A r \in to_cancel(Store, proc[p].t) \ {proc'[p].rid} :
                    reservations'[r].status = "CANCELLED"
              /\ \A r \in to_expire(Store, proc[p].t) \ {proc'[p].rid} :
                    reservations'[r].status = "EXPIRED"]_vars

\* C29: over the runs of the return-reminder task, a reservation is sent at
\* most one return reminder.
C29_OneReminder ==
    \A r \in Rows :
        Cardinality({p \in Procs :
            [kind |-> "return_reminder", id |-> r] \in proc[p].mail}) <= 1

\* C30: a run of the sweep sends the blocked-account mail to exactly the users
\* whose is_blocked it changes from false to true.
C30_BlockedNotified ==
    [][\A p \in Procs :
          (Running(p) /\ proc'[p].pc \in {"done", "failed"}) =>
              \A u \in Users :
                  [kind |-> "user_blocked", id |-> u] \in proc'[p].mail
                      <=> (~is_blocked[u] /\ is_blocked'[u])]_vars

\* C33: the librarian's catalog update never changes a book's status.
C33_UpdateKeepsStatus ==
    \A b \in Books \cup {MissingBook}, s \in BookStatus :
        After(update_book(Store, b, s)).book = book_status

\* C34: a return succeeds only for a reservation that is itself ACTIVE or
\* EXPIRED.
C34_ReturnOnlyLoans ==
    \A r \in Rows :
        confirm_book_return_by_librarian(Store, r).result = "ok"
            => reservations[r].status \in {"ACTIVE", "EXPIRED"}

\* the books a user holds an EXPIRED reservation of
ExpiredBooksOf(st, u) ==
    {st.res[r].book_id : r \in {x \in 1..Len(st.res) :
        st.res[x].user_id = u /\ st.res[x].status = "EXPIRED"}}

C38_SweepFrame ==
    /\ \A r \in Rows :
          reservations[r].status \in {"PENDING", "CANCELLED", "COMPLETED", "EXPIRED"}
              => AfterSweep.res[r] = reservations[r]
    /\ \A b \in Books :
          (~\E r \in Rows : /\ reservations[r].book_id = b
                            /\ reservations[r].status \in {"CONFIRMED", "ACTIVE"}
                            /\ reservations[r].expires_at < now)
              => AfterSweep.book[b] = book_status[b]

\* C38 witness: a sweep that cancels a CONFIRMED reservation leaves a PENDING
\* one, past the same deadline, PENDING with its book RESERVED.
C38_Witness ==
    /\ \E r \in Rows : /\ reservations[r].status = "CONFIRMED"
                        /\ AfterSweep.res[r].status = "CANCELLED"
    /\ \E r \in Rows : /\ reservations[r].status = "PENDING"
                        /\ reservations[r].expires_at < now
                        /\ AfterSweep.res[r].status = "PENDING"
                        /\ AfterSweep.book[reservations[r].book_id] = "RESERVED"

\* the bulk delete requests
DeleteRequests == SUBSET (Books \cup {MissingBook})
Restricted == {"RESERVED", "CHECKED_OUT", "OVERDUE"}

\* C31: a bulk delete naming a book that is RESERVED, CHECKED_OUT or OVERDUE is
\* rejected and deletes no book.
C31_RestrictedNotDeleted ==
    \A ids \in DeleteRequests :
        (\E b \in ids \cap DOMAIN book_status : book_status[b] \in Restricted) =>
            /\ delete_multiple_books(Store, ids).result # "ok"
            /\ After(delete_multiple_books(Store, ids)) = Store

\* C31 witness: with one book deleted already, a request naming an AVAILABLE
\* book and an OVERDUE one is rejected.
C31_Witness ==
    /\ DOMAIN book_status # Books
    /\ \E a, b \in DOMAIN book_status :
          /\ book_status[a] = "AVAILABLE"
          /\ book_status[b] = "OVERDUE"
          /\ delete_multiple_books(Store, {a, b}).result = "BadRequest"
          /\ a \in DOMAIN After(delete_multiple_books(Store, {a, b})).book

\* C32: every reservation ever created is still in the reservations table.
C32_LedgerAppendOnly == \A r \in Rows : Exists(Store, r)

\* a take_chat request of worker p was answered "Chat session assigned"
Taken(p) == proc[p].pc = "done" /\ proc[p].op = "take_chat" /\ proc[p].result = "ok"

\* C39: of two take_chat requests for one session at most one succeeds, and
\* the librarian_id of an active session never changes.
C39_TakenOnce ==
    [][/\ \A p, q \in Procs :
            (Taken(p)' /\ Taken(q)' /\ proc'[p].session = proc'[q].session) => p = q
       /\ \A s \in 1..Len(chat_sessions) :
            (chat_sessions[s].status = "active" /\ chat_sessions'[s].status = "active")
                => chat_sessions'[s].librarian_id = chat_sessions[s].librarian_id]_vars
====
